---- MODULE Spec2Model ----
\* Model of the retrieval-augmented chat pipeline (rag_pipeline.py, class
\* RAGPipeline): document ingestion into the shared vector collection and
\* the answer path (split, retrieve, assemble, select prompt, generate).
\* A text is a sequence of one-character strings unless stated otherwise.
EXTENDS Integers, Sequences, FiniteSets, TLC

VARIABLES clock, collection, index, ncalls, pc, loc, qin, qparts, qkind,
          ingested, asm, sess, cat, db, req, http, tmp

vars == <<clock, collection, index, ncalls, pc, loc, qin, qparts, qkind,
          ingested, asm, sess, cat, db, req, http, tmp>>

\* ---------------------------------------------------------------- bounds
MaxClock == 1
MaxCalls == 2
MaxDocs == 2
MaxFrags == 3

\* ------------------------------------------------------ program constants
SearchLimit == 3
PreviewLen == 200
CourseLimit == 5
\* the length of the vectors of sentence-transformers/all-MiniLM-L6-v2
EmbeddingSize == 384

Sessions == {"s1", "s2"}
\* Python's None, and a value that is not None
None == [null |-> TRUE]
Some(v) == [null |-> FALSE, val |-> v]

\* ------------------------------------------------------------ text helpers
Min(a, b) == IF a < b THEN a ELSE b

Upper == <<"A","B","C","D","E","F","G","H","I","J","K","L","M",
           "N","O","P","Q","R","S","T","U","V","W","X","Y","Z">>
Lower == <<"a","b","c","d","e","f","g","h","i","j","k","l","m",
           "n","o","p","q","r","s","t","u","v","w","x","y","z">>

\* str.lower() on one character
LowerChar(c) ==
    IF \E k \in 1..26 : Upper[k] = c
    THEN Lower[CHOOSE k \in 1..26 : Upper[k] = c]
    ELSE c

\* str.lower()
lower(s) == [k \in 1..Len(s) |-> LowerChar(s[k])]

\* sub occurs in s at position k (1-based)
StartsAt(s, sub, k) ==
    /\ k + Len(sub) - 1 <= Len(s)
    /\ SubSeq(s, k, k + Len(sub) - 1) = sub

\* Python's  sub in s
Contains(s, sub) == \E k \in 1..(Len(s) + 1) : StartsAt(s, sub, k)

RECURSIVE SplitFrom(_, _, _, _)
\* str.split(sep): left-to-right scan for non-overlapping occurrences; `from`
\* is where the part being collected starts, k the scan position.
SplitFrom(s, sep, k, from) ==
    IF k > Len(s) THEN << SubSeq(s, from, Len(s)) >>
    ELSE IF StartsAt(s, sep, k)
         THEN << SubSeq(s, from, k - 1) >>
                  \o SplitFrom(s, sep, k + Len(sep), k + Len(sep))
         ELSE SplitFrom(s, sep, k + 1, from)

split(s, sep) == SplitFrom(s, sep, 1, 1)

RECURSIVE Digits(_)
\* str(int) for a non-negative integer
Digits(n) ==
    LET d == <<"0","1","2","3","4","5","6","7","8","9">>
    IN  IF n < 10 THEN << d[n + 1] >> ELSE Digits(n \div 10) \o << d[(n % 10) + 1] >>

RECURSIVE Join(_, _)
\* sep.join(parts)
Join(parts, sep) ==
    IF Len(parts) = 0 THEN << >>
    ELSE IF Len(parts) = 1 THEN parts[1]
    ELSE parts[1] \o sep \o Join(Tail(parts), sep)

\* ------------------------------------------------------- query parsing
\* the literal "\n\nQuestion: "
SEP == <<"\n","\n","Q","u","e","s","t","i","o","n",":"," ">>

\* parts = query.split("\n\nQuestion: ")
QueryParts(query) == split(query, SEP)

\* context_part = parts[0] if len(parts) > 1 else ""
ContextPart(query) ==
    LET parts == QueryParts(query)
    IN  IF Len(parts) > 1 THEN parts[1] ELSE << >>

\* a slip: the question taken from the first split instead of the last
QuestionAfterFirst(query) ==
    LET parts == QueryParts(query)
    IN  IF Len(parts) > 1 THEN parts[2] ELSE parts[1]

\* question = parts[-1]
Question(query) ==
    LET parts == QueryParts(query)
    IN  parts[Len(parts)]

SixYearOld == <<"s","i","x","-","y","e","a","r","-","o","l","d">>
Child == <<"c","h","i","l","d">>

\* a slip: the triggers are looked for without lower-casing the question
IsChildFriendlyCaseSensitive(question) ==
    \/ Contains(question, SixYearOld)
    \/ Contains(question, Child)

\* is_child_friendly = "six-year-old" in question.lower() or "child" in question.lower()
IsChildFriendly(question) ==
    \/ Contains(lower(question), SixYearOld)
    \/ Contains(lower(question), Child)

\* the template chosen by the if/else on is_child_friendly
PromptKind(question) ==
    IF IsChildFriendly(question) THEN "SimplifiedForChild" ELSE "Standard"

\* ------------------------------------------------------------- literals
\* the default user_id "unknown"
Unknown ==
    <<"u","n","k","n","o","w","n">>

\* "\n\nUser Uploaded Documents:\n" of full_context
DocsLabel ==
    <<"\n","\n","U","s","e","r"," ","U","p","l","o","a","d","e","d"," ","D",
      "o","c","u","m","e","n","t","s",":","\n">>

\* "\n\nAvailable Courses:\n" of full_context
CoursesLabel ==
    <<"\n","\n","A","v","a","i","l","a","b","l","e"," ","C","o","u","r","s",
      "e","s",":","\n">>

\* placeholder of an empty user_doc_results
NoDocs ==
    <<"N","o"," ","r","e","l","e","v","a","n","t"," ","u","s","e","r"," ",
      "d","o","c","u","m","e","n","t","s"," ","f","o","u","n","d",".">>

\* placeholder of an empty course_results
NoCourses ==
    <<"N","o"," ","r","e","l","e","v","a","n","t"," ","c","o","u","r","s",
      "e","s"," ","f","o","u","n","d",".">>

\* "User Document: "
DocPrefix ==
    <<"U","s","e","r"," ","D","o","c","u","m","e","n","t",":"," ">>

\* "..." appended to every excerpt
Ellipsis ==
    <<".",".",".">>

\* "Course: "
CourseTag ==
    <<"C","o","u","r","s","e",":"," ">>

\* "\nSubject: "
SubjectTag ==
    <<"\n","S","u","b","j","e","c","t",":"," ">>

\* "\nLevel: "
LevelTag ==
    <<"\n","L","e","v","e","l",":"," ">>

\* "\nDescription: "
DescriptionTag ==
    <<"\n","D","e","s","c","r","i","p","t","i","o","n",":"," ">>

\* "\nPrice: $"
PriceTag ==
    <<"\n","P","r","i","c","e",":"," ","$">>

\* "\nSubscribers: "
SubscribersTag ==
    <<"\n","S","u","b","s","c","r","i","b","e","r","s",":"," ">>

\* head of the apology string
ApologyHead ==
    <<"I"," ","c","o","u","l","d","n","'","t"," ","p","r","o","c","e","s",
      "s"," ","t","h","a","t"," ","r","e","q","u","e","s","t","."," ","P",
      "l","e","a","s","e"," ","t","r","y"," ","a","g","a","i","n","."," ",
      "(","E","r","r","o","r",":"," ">>

\* tail of the apology string
ApologyTail ==
    <<")">>

\* str(None)
NoneText ==
    <<"N","o","n","e">>

\* default of doc.metadata.get("source", ...)
UploadedFile ==
    <<"u","p","l","o","a","d","e","d","_","f","i","l","e">>

\* "\n\n", the separator of the joins
ParaBreak ==
    <<"\n","\n">>

\* "_" of the point id
Underscore ==
    <<"_">>

\* str(e) of the TypeError raised by f"{None:,}"
FormatError ==
    <<"u","n","s","u","p","p","o","r","t","e","d"," ","f","o","r","m","a",
      "t"," ","s","t","r","i","n","g"," ","p","a","s","s","e","d"," ","t",
      "o"," ","N","o","n","e","T","y","p","e",".","_","_","f","o","r","m",
      "a","t","_","_">>

\* str(e) of a transport error
Quota ==
    <<"4","2","9"," ","q","u","o","t","a">>

Timeout ==
    <<"t","i","m","e","d"," ","o","u","t">>

\* a chunk text
Mitosis ==
    <<"M","i","t","o","s","i","s"," ","i","s"," ","c","e","l","l"," ","d",
      "i","v","i","s","i","o","n",".">>

\* a chunk text
Gravity ==
    <<"G","r","a","v","i","t","y"," ","p","u","l","l","s",".">>

\* a source label
BioTxt ==
    <<"b","i","o",".","t","x","t">>

\* a user id
U1 ==
    <<"u","1">>

\* a user id that itself holds an underscore and a digit
U2 ==
    <<"u","1","_","0">>

\* a model output
Answer ==
    <<"C","e","l","l","s"," ","d","i","v","i","d","e",".">>

\* a course title
Python ==
    <<"P","y","t","h","o","n">>

\* a course subject
Dev ==
    <<"W","e","b"," ","D","e","v","e","l","o","p","m","e","n","t">>

\* a course level
Beginner ==
    <<"B","e","g","i","n","n","e","r"," ","L","e","v","e","l">>

\* a course description
Excel ==
    <<"E","x","c","e","l">>

Intro ==
    <<"I","n","t","r","o",".">>

\* ------------------------------------------------------------ input data
Users == {U1, U2}

\* raw document objects: page_content and metadata (source may be absent)
DocBio == [page_content |-> Mitosis, metadata |-> [source |-> Some(BioTxt)]]
DocNote == [page_content |-> Gravity, metadata |-> [source |-> None]]

\* the chunks of the uploaded file, as the loader yields them
FileChunk(k) == IF k % 2 = 1 THEN DocBio ELSE DocNote

\* the document batches a caller may upload: the file's first n chunks
Batches == {[k \in 1..n |-> FileChunk(k)] : n \in 1..MaxDocs}

\* rows of the courses table (NULL columns arrive as None)
CourseFull ==
    [title |-> Python, subject |-> Dev, level |-> Beginner,
     description |-> Some(Intro), price |-> Some(20),
     subscribers |-> Some(1200)]
CourseOther ==
    [title |-> Excel, subject |-> Dev, level |-> Beginner,
     description |-> None, price |-> Some(0), subscribers |-> Some(7)]
CourseNulls ==
    [title |-> Python, subject |-> Dev, level |-> Beginner,
     description |-> None, price |-> None, subscribers |-> None]

\* what select_query.limit(limit).execute() may answer: an error, or response.data
CatalogResponses ==
    { [raises |-> TRUE, data |-> None],
      [raises |-> FALSE, data |-> Some(<< >>)],
      [raises |-> FALSE, data |-> Some(<< CourseFull >>)],
      [raises |-> FALSE, data |-> Some(<< CourseFull, CourseNulls >>)] }

\* what chain.invoke may answer: an error with a message, or the model's text
ModelResponses ==
    { [raises |-> TRUE, text |-> Timeout],
      [raises |-> TRUE, text |-> Quota],
      [raises |-> FALSE, text |-> Answer],
      [raises |-> FALSE, text |-> << >>] }

\* the queries a caller may send
Queries ==
    { <<"h","i">>,
      <<"a">> \o SEP \o <<"b">> \o SEP \o Child }

\* -------------------------------------------------------------- ingestion
\* a slip: the id without the sequence number
PointIdNoSeq(user_id, i, now) ==
    user_id \o Underscore \o Digits(now)

\* f"{user_id}_{i}_{int(datetime.now().timestamp())}"
PointId(user_id, i, now) ==
    user_id \o Underscore \o Digits(i) \o Underscore \o Digits(now)

\* doc.metadata.get("source", "uploaded_file")
SourceOf(doc) ==
    IF doc.metadata.source.null THEN UploadedFile ELSE doc.metadata.source.val

\* one element of the points list comprehension
MakePoint(user_id, i, doc, now) ==
    [id |-> PointId(user_id, i, now),
     vector |-> doc.page_content,
     payload |-> [content |-> doc.page_content,
                  user_id |-> user_id,
                  source |-> SourceOf(doc),
                  uploaded_at |-> now]]

RECURSIVE Upsert(_, _)
\* qdrant.upsert: the points are written in order, a point replacing a stored
\* point of the same id
Upsert(idx, points) ==
    IF points = << >> THEN idx
    ELSE Upsert({p \in idx : p.id # Head(points).id} \cup {Head(points)},
                Tail(points))

\* a slip: the handler lets the exception out of add_documents
AddExceptReraises == [pc |-> "ad_raised", ret |-> None]

\* except Exception as e: ... return False
AddExcept == [pc |-> "ad_done", ret |-> Some(FALSE)]

\* ---------------------------------------------------------------- search
\* a slip: the search is sent without a filter
QueryFilterNone(user_id) == {}

\* query_filter={"must": [{"key": "user_id", "match": {"value": user_id}}]}
QueryFilter(user_id) == { [key |-> "user_id", value |-> user_id] }

\* the index's filter: every must condition holds of the payload
Matches(point, filter) == \A c \in filter : point.payload[c.key] = c.value

\* sequences without repetition over a set, of a given length
Arrangements(S, n) ==
    {q \in [1..n -> S] : \A a, b \in 1..n : a # b => q[a] # q[b]}

\* qdrant.search: the limit best matching points, ranked by a similarity the
\* model leaves open (any order)
SearchResults(idx, filter, limit) ==
    LET hits == {p \in idx : Matches(p, filter)}
    IN  Arrangements(hits, Min(limit, Cardinality(hits)))

\* a slip: a failed search ends the call instead of degrading
SearchExceptAborts == [pc |-> "aq_done", user_doc_results |-> << >>]

\* except Exception as e: print(...) around qdrant.search
SearchExcept == [pc |-> "aq_courses", user_doc_results |-> << >>]

\* fetch_courses: response.data if response.data else [], [] on any error
FetchCourses(resp) ==
    IF resp.raises THEN << >>
    ELSE IF resp.data.null THEN << >> ELSE resp.data.val

\* ------------------------------------------------------- context assembly
\* str(x) of a column that may be NULL
StrText(x) == IF x.null THEN NoneText ELSE x.val
StrNum(x) == IF x.null THEN NoneText ELSE Digits(x.val)

RECURSIVE Thousands(_)
\* format(n, ",")
Thousands(n) ==
    IF n < 1000 THEN Digits(n)
    ELSE LET r == n % 1000
             pad == IF r < 10 THEN <<"0","0">> ELSE IF r < 100 THEN <<"0">> ELSE << >>
         IN  Thousands(n \div 1000) \o <<",">> \o pad \o Digits(r)

\* f"User Document: {hit.payload['content'][:200]}..."
\* a slip: the excerpt is not cut
ExcerptUncut(hit) ==
    DocPrefix \o hit.payload.content \o Ellipsis

\* f"User Document: {hit.payload['content'][:200]}..."
Excerpt(hit) ==
    LET content == hit.payload.content
    IN  DocPrefix \o SubSeq(content, 1, Min(PreviewLen, Len(content))) \o Ellipsis

\* a slip: the excerpts are joined last hit first
UserDocContextReversed(hits) ==
    IF hits # << >>
    THEN Join([k \in 1..Len(hits) |-> Excerpt(hits[Len(hits) + 1 - k])], ParaBreak)
    ELSE NoDocs

\* user_doc_context
UserDocContext(hits) ==
    IF hits # << >>
    THEN Join([k \in 1..Len(hits) |-> Excerpt(hits[k])], ParaBreak)
    ELSE NoDocs

\* f"{course['subscribers']:,}" raises TypeError when the column is NULL
CourseRaises(course) == course.subscribers.null

\* the six-line summary of one course
CourseSummary(course) ==
    CourseTag \o course.title
        \o SubjectTag \o course.subject
        \o LevelTag \o course.level
        \o DescriptionTag \o StrText(course.description)
        \o PriceTag \o StrNum(course.price)
        \o SubscribersTag \o Thousands(course.subscribers.val)

\* a slip: no placeholder when no course was found
CourseContextNoPlaceholder(courses) ==
    Join([k \in 1..Len(courses) |-> CourseSummary(courses[k])], ParaBreak)

\* course_context
CourseContext(courses) ==
    IF courses # << >>
    THEN Join([k \in 1..Len(courses) |-> CourseSummary(courses[k])], ParaBreak)
    ELSE NoCourses

\* a slip: the context carries the time of its assembly
FullContextStamped(context_part, hits, courses) ==
    context_part \o DocsLabel \o UserDocContext(hits)
                 \o CoursesLabel \o CourseContext(courses) \o Digits(clock)

\* full_context
FullContext(context_part, hits, courses) ==
    context_part \o DocsLabel \o UserDocContext(hits)
                 \o CoursesLabel \o CourseContext(courses)

ApologyWithoutError(e) == ApologyHead \o ApologyTail

\* f"I couldn't process that request. Please try again. (Error: {str(e)})"
Apology(e) == ApologyHead \o e \o ApologyTail

\* a slip: the handler lets the exception out of basic_rag_chain
RagExceptReraises(e) == [pc |-> "aq_raised", ret |-> None]

\* except Exception as e: ... return f"I couldn't process ..."
RagExcept(e) == [pc |-> "aq_done", ret |-> Some(Apology(e))]

\* ------------------------------------------------------------------ state
CollectionConfig == [size |-> 384, distance |-> "Cosine"]

\* the index takes and compares only vectors of the collection's size; it
\* does not look at how the caller expects distances to be measured
RefusesVectors(config) == config.size # EmbeddingSize

InitLoc ==
    [op |-> "none", user_id |-> << >>, documents |-> << >>, points |-> << >>,
     query |-> << >>, context_part |-> << >>, question |-> << >>,
     user_doc_results |-> << >>, course_results |-> << >>,
     full_context |-> None, prompt |-> "unset", response |-> None,
     e |-> None, ret |-> None, embedded |-> None, catalog_query |-> None,
     ran |-> << >>, raised |-> {}]

\* a point an earlier run of add_documents stored for U2
\* the assembler has been given nothing
NoAssembly ==
    [context_part |-> << >>, hits |-> << >>, courses |-> << >>,
     full_context |-> None, raised |-> FALSE, again |-> None]

\* st.session_state of a browser session that has not opened the chat page:
\* no 'rag_pipeline' key, nothing rendered
NoPipeline ==
    [rag_pipeline |-> FALSE, crew |-> FALSE, page |-> "none",
     setup_failed |-> FALSE]

\* no catalog query, empty tables, no request and no upload
NoCatalog == [query |-> None, limit |-> 0, table |-> << >>, result |-> None]
NoTables ==
    [users |-> {}, auth |-> {}, accounts |-> {}, courses |-> {},
     user_courses |-> << >>, unique_enrollment |-> FALSE]
NoRequests == << >>
NoExchange ==
    [endpoint |-> "none", token |-> None, lookup_raises |-> FALSE,
     raised |-> None, status_code |-> 0, detail |-> "none"]
NoUpload == [at |-> "none"]

NoAppState ==
    /\ cat = NoCatalog
    /\ db = NoTables
    /\ req = NoRequests
    /\ http = NoExchange
    /\ tmp = NoUpload

\* everything the pipeline's own actions work on
pipelineVars ==
    <<clock, collection, index, ncalls, pc, loc, qin, qparts, qkind,
      ingested, asm, sess>>

\* the pipeline at rest
PipelineAtRest ==
    /\ clock = 0
    /\ collection = None
    /\ index = {}
    /\ ncalls = 0
    /\ pc = [s \in Sessions |-> "idle"]
    /\ loc = [s \in Sessions |-> InitLoc]
    /\ qin = << >>
    /\ qparts = None
    /\ qkind = "unset"
    /\ ingested = {}
    /\ asm = NoAssembly
    /\ sess = [s \in Sessions |-> NoPipeline]

StoredEarlier == MakePoint(U2, 0, DocNote, 0)

\* the chunk a point was made of: its owner and its text
Chunk(point) ==
    [user_id |-> point.payload.user_id, content |-> point.payload.content]

\* the chunks of the points in idx
Chunks(idx) == {Chunk(p) : p \in idx}

\* a fresh index, or the index an earlier run left behind
InitStores ==
    \/ collection = None /\ index = {}
    \/ collection = Some(CollectionConfig) /\ index = {StoredEarlier}

Init ==
    /\ clock = 0
    /\ InitStores
    /\ ncalls = 0
    /\ pc = [s \in Sessions |-> "idle"]
    /\ loc = [s \in Sessions |-> InitLoc]
    /\ qin = << >>
    /\ qparts = None
    /\ qkind = "unset"
    /\ ingested = Chunks(index)
    /\ asm = NoAssembly
    /\ sess = [s \in Sessions |-> NoPipeline]
    /\ NoAppState

queryVars == <<qin, qparts, qkind>>

\* the variables of the context assembler taken alone and of the application
\* sessions
sideVars == <<asm, sess>>

\* the variables of the catalog query, of the database tables with the
\* requests working on them, and of the upload handler
appVars == <<cat, db, req, http, tmp>>

\* what int(datetime.now().timestamp()) may read now: the clock never runs
\* backwards, and any time may have passed since it was last read
Readings == clock..MaxClock

\* stage `stage` of session s ran and moved the call on
Step(s, stage, to, l) ==
    /\ pc' = [pc EXCEPT ![s] = to]
    /\ loc' = [loc EXCEPT ![s] = [l EXCEPT !.ran = Append(@, stage)]]

\* what is left of a call's locals once its handler has returned: the
\* arguments only
Dropped(l) == [InitLoc EXCEPT !.op = l.op, !.user_id = l.user_id,
                              !.ran = l.ran, !.raised = l.raised]

\* stage `stage` of session s raised and the outer handler h took over with
\* the locals l
Raise(s, stage, h, l) ==
    /\ pc' = [pc EXCEPT ![s] = h.pc]
    /\ loc' = [loc EXCEPT ![s] = [l EXCEPT !.ran = Append(@, stage),
                                            !.raised = @ \cup {stage},
                                            !.ret = h.ret]]

\* --------------------------------------------------------- add_documents
\* In every step that calls a collaborator, `raises` says whether the call
\* raised; the specifications below choose it.

\* a caller enters add_documents(documents, user_id)
AddDocuments(s, documents, user_id) ==
    /\ pc[s] = "idle"
    /\ ncalls < MaxCalls
    /\ ncalls' = ncalls + 1
    /\ pc' = [pc EXCEPT ![s] = "ad_exists"]
    /\ loc' = [loc EXCEPT ![s] = [InitLoc EXCEPT !.op = "add",
                                               !.user_id = user_id,
                                               !.documents = documents]]
    /\ UNCHANGED <<clock, collection, index, queryVars, ingested, sideVars, appVars>>

\* if not self.qdrant.collection_exists(collection_name="user_documents")
AdCollectionExists(s, raises) ==
    /\ pc[s] = "ad_exists"
    /\ IF raises
       THEN Raise(s, "collection_exists", AddExcept, Dropped(loc[s]))
       ELSE Step(s, "collection_exists",
                 IF collection.null THEN "ad_create" ELSE "ad_embed", loc[s])
    /\ UNCHANGED <<clock, collection, index, ncalls, queryVars, ingested, sideVars, appVars>>

\* self.qdrant.create_collection(...): the index refuses to create a
\* collection that exists
AdCreateCollection(s, raises) ==
    /\ pc[s] = "ad_create"
    /\ IF raises \/ ~collection.null
       THEN /\ Raise(s, "create_collection", AddExcept, Dropped(loc[s]))
            /\ UNCHANGED collection
       ELSE /\ Step(s, "create_collection", "ad_embed", loc[s])
            /\ collection' = Some(CollectionConfig)
    /\ UNCHANGED <<clock, index, ncalls, queryVars, ingested, sideVars, appVars>>

\* embeddings = self.embedder.embed_documents([...])
AdEmbed(s, raises) ==
    /\ pc[s] = "ad_embed"
    /\ IF raises
       THEN Raise(s, "embed_documents", AddExcept, Dropped(loc[s]))
       ELSE Step(s, "embed_documents", "ad_points", loc[s])
    /\ UNCHANGED <<clock, collection, index, ncalls, queryVars, ingested, sideVars, appVars>>

\* one round of the points list comprehension: point i is built with the
\* clock's reading `now` at that moment
AdPoint(s, raises, now) ==
    /\ pc[s] = "ad_points"
    /\ clock' = now
    /\ LET l == loc[s]
           i == Len(l.points)
           built == Append(l.points,
                           MakePoint(l.user_id, i, l.documents[i + 1], now))
       IN  IF raises
           THEN Raise(s, "points", AddExcept, Dropped(loc[s]))
           ELSE Step(s, "points",
                     IF Len(built) = Len(l.documents)
                     THEN "ad_upsert" ELSE "ad_points",
                     [l EXCEPT !.points = built])
    /\ UNCHANGED <<collection, index, ncalls, queryVars, ingested, sideVars, appVars>>

\* self.qdrant.upsert(collection_name="user_documents", points=points);
\* return True
AdUpsert(s, raises) ==
    /\ pc[s] = "ad_upsert"
    /\ IF raises \/ collection.null \/ RefusesVectors(collection.val)
       THEN /\ Raise(s, "upsert", AddExcept, Dropped(loc[s]))
            /\ UNCHANGED <<index, ingested>>
       ELSE /\ Step(s, "upsert", "ad_done", [loc[s] EXCEPT !.ret = Some(TRUE)])
            /\ index' = Upsert(index, loc[s].points)
            /\ ingested' = ingested \cup
                   {Chunk(loc[s].points[k]) : k \in 1..Len(loc[s].points)}
    /\ UNCHANGED <<clock, collection, ncalls, queryVars, sideVars, appVars>>

\* ------------------------------------------------------- basic_rag_chain
\* a slip: the search is started without embedding the question first
AfterSplitSkipsEmbedding(user_id) ==
    IF user_id # Unknown THEN "aq_search" ELSE "aq_courses"

\* if user_id != "unknown": the retrieval starts with the embedding, which is
\* evaluated as an argument of qdrant.search; otherwise the catalog is next
AfterSplit(user_id) ==
    IF user_id # Unknown THEN "aq_embed" ELSE "aq_courses"

\* a caller enters basic_rag_chain(query, user_id): the query is split
AnswerQuery(s, query, user_id) ==
    /\ pc[s] = "idle"
    /\ ncalls < MaxCalls
    /\ ncalls' = ncalls + 1
    /\ Step(s, "split", AfterSplit(user_id),
            [InitLoc EXCEPT !.op = "query",
                            !.user_id = user_id,
                            !.query = query,
                            !.context_part = ContextPart(query),
                            !.question = Question(query)])
    /\ UNCHANGED <<clock, collection, index, queryVars, ingested, sideVars, appVars>>

\* the inner handler took over from `stage` with the locals l
SearchFailed(s, stage, l) ==
    Step(s, stage, SearchExcept.pc,
         [l EXCEPT !.raised = @ \cup {stage},
                   !.user_doc_results = SearchExcept.user_doc_results])

\* a slip: the retrieval is given the whole query
RetrievalTextWholeQuery(l) == l.query

\* the text handed to embed_query and to fetch_courses: question
RetrievalText(l) == l.question

\* query_vector=self.embedder.embed_query(question)
AqEmbed(s, raises) ==
    /\ pc[s] = "aq_embed"
    /\ LET l == [loc[s] EXCEPT !.embedded = Some(RetrievalText(loc[s]))]
       IN  IF raises
           THEN SearchFailed(s, "embed_query", l)
           ELSE Step(s, "embed_query", "aq_search", l)
    /\ UNCHANGED <<clock, collection, index, ncalls, queryVars, ingested, sideVars, appVars>>

\* user_doc_results = self.qdrant.search(..., limit=3, query_filter=...):
\* the index raises when the collection is missing
AqSearch(s, raises) ==
    /\ pc[s] = "aq_search"
    /\ IF raises \/ collection.null \/ RefusesVectors(collection.val)
       THEN SearchFailed(s, "search", loc[s])
       ELSE \E hits \in SearchResults(index, QueryFilter(loc[s].user_id), SearchLimit) :
               Step(s, "search", "aq_courses",
                    [loc[s] EXCEPT !.user_doc_results = hits])
    /\ UNCHANGED <<clock, collection, index, ncalls, queryVars, ingested, sideVars, appVars>>

\* course_results = self.fetch_courses(query=question, limit=5)
AqCourses(s, resp) ==
    /\ pc[s] = "aq_courses"
    /\ Step(s, "fetch_courses", "aq_context",
            [loc[s] EXCEPT !.catalog_query = Some(RetrievalText(loc[s])),
                           !.course_results = FetchCourses(resp),
                           !.raised = IF resp.raises
                                      THEN @ \cup {"fetch_courses"} ELSE @])
    /\ UNCHANGED <<clock, collection, index, ncalls, queryVars, ingested, sideVars, appVars>>

\* user_doc_context, course_context and full_context are built
AqContext(s) ==
    /\ pc[s] = "aq_context"
    /\ LET l == loc[s]
       IN  IF \E k \in 1..Len(l.course_results) : CourseRaises(l.course_results[k])
           THEN Raise(s, "context", RagExcept(FormatError),
                      [l EXCEPT !.e = Some(FormatError)])
           ELSE Step(s, "context", "aq_invoke",
                     [l EXCEPT !.full_context =
                         Some(FullContext(l.context_part, l.user_doc_results,
                                          l.course_results))])
    /\ UNCHANGED <<clock, collection, index, ncalls, queryVars, ingested, sideVars, appVars>>

\* a slip: the trigger words are looked for in the whole query
TriggerTextWholeQuery(l) == l.query

\* the text the trigger words are looked for: question
TriggerText(l) == l.question

\* the template is chosen, the chain is built and invoked; return response
AqInvoke(s, resp) ==
    /\ pc[s] = "aq_invoke"
    /\ LET l == [loc[s] EXCEPT !.prompt = PromptKind(TriggerText(loc[s]))]
       IN  IF resp.raises
           THEN Raise(s, "invoke", RagExcept(resp.text),
                      [l EXCEPT !.e = Some(resp.text)])
           ELSE Step(s, "invoke", "aq_done",
                     [l EXCEPT !.response = Some(resp.text),
                               !.ret = Some(resp.text)])
    /\ UNCHANGED <<clock, collection, index, ncalls, queryVars, ingested, sideVars, appVars>>

\* the caller takes the returned value; the session is free for the next call
Return(s) ==
    /\ pc[s] \in {"ad_done", "aq_done"}
    /\ pc' = [pc EXCEPT ![s] = "idle"]
    /\ loc' = [loc EXCEPT ![s] = InitLoc]
    /\ UNCHANGED <<clock, collection, index, ncalls, queryVars, ingested, sideVars, appVars>>

\* -------------------------------------------------------- specifications
\* The whole pipeline: two sessions, every collaborator may fail.
Next ==
    \/ \E s \in Sessions, d \in Batches, u \in Users : AddDocuments(s, d, u)
    \/ \E s \in Sessions, r \in BOOLEAN : AdCollectionExists(s, r)
    \/ \E s \in Sessions, r \in BOOLEAN : AdCreateCollection(s, r)
    \/ \E s \in Sessions, r \in BOOLEAN : AdEmbed(s, r)
    \/ \E s \in Sessions, r \in BOOLEAN, now \in Readings : AdPoint(s, r, now)
    \/ \E s \in Sessions, r \in BOOLEAN : AdUpsert(s, r)
    \/ \E s \in Sessions, q \in Queries, u \in Users \cup {Unknown} : AnswerQuery(s, q, u)
    \/ \E s \in Sessions, r \in BOOLEAN : AqEmbed(s, r)
    \/ \E s \in Sessions, r \in BOOLEAN : AqSearch(s, r)
    \/ \E s \in Sessions, resp \in CatalogResponses : AqCourses(s, resp)
    \/ \E s \in Sessions : AqContext(s)
    \/ \E s \in Sessions, resp \in ModelResponses : AqInvoke(s, resp)
    \/ \E s \in Sessions : Return(s)

Spec == Init /\ [][Next]_vars

\* Uploads only: two sessions ingest concurrently, every step may fail.
NextIngest ==
    \/ \E s \in Sessions, d \in Batches, u \in Users : AddDocuments(s, d, u)
    \/ \E s \in Sessions, r \in BOOLEAN : AdCollectionExists(s, r)
    \/ \E s \in Sessions, r \in BOOLEAN : AdCreateCollection(s, r)
    \/ \E s \in Sessions, r \in BOOLEAN : AdEmbed(s, r)
    \/ \E s \in Sessions, r \in BOOLEAN, now \in Readings : AdPoint(s, r, now)
    \/ \E s \in Sessions, r \in BOOLEAN : AdUpsert(s, r)
    \/ \E s \in Sessions : Return(s)

SpecIngest == Init /\ [][NextIngest]_vars

\* Uploads and queries sharing the index: session s1 uploads while session
\* s2 asks; the index and the embedder may fail at every call, the catalog
\* and the model answer normally.
NextShared ==
    \/ \E d \in Batches, u \in Users : AddDocuments("s1", d, u)
    \/ \E r \in BOOLEAN : AdCollectionExists("s1", r)
    \/ \E r \in BOOLEAN : AdCreateCollection("s1", r)
    \/ \E r \in BOOLEAN : AdEmbed("s1", r)
    \/ \E r \in BOOLEAN, now \in Readings : AdPoint("s1", r, now)
    \/ \E r \in BOOLEAN : AdUpsert("s1", r)
    \/ \E q \in Queries, u \in Users \cup {Unknown} : AnswerQuery("s2", q, u)
    \/ \E r \in BOOLEAN : AqEmbed("s2", r)
    \/ \E r \in BOOLEAN : AqSearch("s2", r)
    \/ AqCourses("s2", [raises |-> FALSE, data |-> Some(<< CourseFull >>)])
    \/ AqContext("s2")
    \/ AqInvoke("s2", [raises |-> FALSE, text |-> Answer])
    \/ \E s \in Sessions : Return(s)

SpecShared == Init /\ [][NextShared]_vars

\* the points one upload of the file's first n chunks by user_id stores when
\* the clock reads t throughout
UploadOf(user_id, n, t) ==
    [k \in 1..n |-> MakePoint(user_id, k - 1, FileChunk(k), t)]

\* indexes that earlier uploads leave behind
AnswerIndexes ==
    { {StoredEarlier},
      Upsert(Upsert({}, UploadOf(U1, 2, 0)), UploadOf(U2, 1, 0)),
      Upsert(Upsert(Upsert({}, UploadOf(U1, 2, 0)), UploadOf(U2, 1, 0)),
             UploadOf(U1, 2, 1)) }

InitAnswer ==
    /\ clock = MaxClock
    /\ \/ collection = None /\ index = {}
       \/ collection = Some(CollectionConfig) /\ index \in AnswerIndexes
    /\ ncalls = 0
    /\ pc = [s \in Sessions |-> "idle"]
    /\ loc = [s \in Sessions |-> InitLoc]
    /\ qin = << >>
    /\ qparts = None
    /\ qkind = "unset"
    /\ ingested = Chunks(index)
    /\ asm = NoAssembly
    /\ sess = [s \in Sessions |-> NoPipeline]
    /\ NoAppState

\* One session answering queries over a stored index, every collaborator
\* may fail.
NextAnswer ==
    \/ \E q \in Queries, u \in Users \cup {Unknown} : AnswerQuery("s1", q, u)
    \/ \E r \in BOOLEAN : AqEmbed("s1", r)
    \/ \E r \in BOOLEAN : AqSearch("s1", r)
    \/ \E resp \in CatalogResponses : AqCourses("s1", resp)
    \/ AqContext("s1")
    \/ \E resp \in ModelResponses : AqInvoke("s1", resp)
    \/ Return("s1")

SpecAnswer == InitAnswer /\ [][NextAnswer]_vars

\* ------------------------------------------------ the query functions alone
\* "Question: ", the separator without its two newlines
QuestionTag == <<"Q","u","e","s","t","i","o","n",":"," ">>

\* pieces the combined query strings are made of
Fragments ==
    { <<"a">>, SEP, <<"\n">>, QuestionTag, <<"C","h","i","L">>, <<"D">>,
      <<"S","i","x","-","Y","e","a","r","-">>, <<"o","l","d">> }

\* every concatenation of 1..MaxFrags fragments
QueryInputs ==
    { Join(f, << >>) : f \in UNION {[1..n -> Fragments] : n \in 1..MaxFrags} }

InitQuery ==
    /\ clock = 0
    /\ collection = None
    /\ index = {}
    /\ ncalls = 0
    /\ pc = [s \in Sessions |-> "idle"]
    /\ loc = [s \in Sessions |-> InitLoc]
    /\ qin \in QueryInputs
    /\ qparts = None
    /\ qkind = "unset"
    /\ ingested = Chunks(index)
    /\ asm = NoAssembly
    /\ sess = [s \in Sessions |-> NoPipeline]
    /\ NoAppState

\* lines 150-152 applied to qin
ParseQuery ==
    /\ qparts.null
    /\ qparts' = Some([context_part |-> ContextPart(qin), question |-> Question(qin)])
    /\ UNCHANGED <<clock, collection, index, ncalls, pc, loc, qin, qkind,
                   ingested, sideVars, appVars>>

\* lines 188-204 applied to the recovered question
SelectPrompt ==
    /\ ~qparts.null
    /\ qkind = "unset"
    /\ qkind' = PromptKind(qparts.val.question)
    /\ UNCHANGED <<clock, collection, index, ncalls, pc, loc, qin, qparts,
                   ingested, sideVars, appVars>>

NextQuery == ParseQuery \/ SelectPrompt

SpecQuery == InitQuery /\ [][NextQuery]_vars

\* ------------------------------------------------ upload, then retrieval
\* what a caller may upload: the file's first n chunks, or a one-chunk note
Uploads == Batches \cup {<< DocNote >>}

\* Session s1 uploads files and notes while session s2 asks; the index and
\* the embedder may fail at every call, the catalog and the model answer
\* normally.
NextRetrieve ==
    \/ \E d \in Uploads, u \in Users : AddDocuments("s1", d, u)
    \/ \E r \in BOOLEAN : AdCollectionExists("s1", r)
    \/ \E r \in BOOLEAN : AdCreateCollection("s1", r)
    \/ \E r \in BOOLEAN : AdEmbed("s1", r)
    \/ \E r \in BOOLEAN, now \in Readings : AdPoint("s1", r, now)
    \/ \E r \in BOOLEAN : AdUpsert("s1", r)
    \/ \E q \in Queries, u \in Users : AnswerQuery("s2", q, u)
    \/ \E r \in BOOLEAN : AqEmbed("s2", r)
    \/ \E r \in BOOLEAN : AqSearch("s2", r)
    \/ AqCourses("s2", [raises |-> FALSE, data |-> Some(<< CourseFull >>)])
    \/ AqContext("s2")
    \/ AqInvoke("s2", [raises |-> FALSE, text |-> Answer])
    \/ \E s \in Sessions : Return(s)

SpecRetrieve == Init /\ [][NextRetrieve]_vars

\* ------------------------------------------------ context assembly alone
\* a chunk longer than the preview: PreviewLen times "x", then "yz"
LongText ==
    [k \in 1..(PreviewLen + 2) |->
        IF k <= PreviewLen THEN "x" ELSE IF k = PreviewLen + 1 THEN "y" ELSE "z"]

DocLong == [page_content |-> LongText, metadata |-> [source |-> Some(BioTxt)]]

\* the index after a user uploaded a long chunk and a short one
LongIndex ==
    Upsert({}, << MakePoint(U1, 0, DocLong, 0), MakePoint(U1, 1, DocNote, 0) >>)

\* the search results context assembly may be given
AssembleHits ==
    {<< >>} \cup
    UNION {SearchResults(idx, QueryFilter(u), SearchLimit) :
               idx \in AnswerIndexes \cup {LongIndex}, u \in Users}

\* the course lists context assembly may be given
AssembleCourses ==
    { << >>, << CourseFull >>, << CourseFull, CourseOther >>,
      << CourseOther, CourseFull >>, << CourseFull, CourseNulls >> }

\* the length of the tags of one course summary
SummaryTagsLen ==
    Len(CourseTag) + Len(SubjectTag) + Len(LevelTag) + Len(DescriptionTag)
        + Len(PriceTag) + Len(SubscribersTag)

\* the size a context has at most when every text put into it (the caller's
\* context and each of the six fields of a course) is cut to the preview
\* length as the excerpts are
ContextBound ==
    PreviewLen
        + Len(DocsLabel)
        + SearchLimit * (Len(DocPrefix) + PreviewLen + Len(Ellipsis))
        + (SearchLimit - 1) * Len(ParaBreak)
        + Len(CoursesLabel)
        + CourseLimit * (SummaryTagsLen + 6 * PreviewLen)
        + (CourseLimit - 1) * Len(ParaBreak)

\* "Course: Python", an enrollment context as the chat page builds it
Enrolled == CourseTag \o Python

\* an enrollment context of ContextBound + 1 characters
LongContext == [k \in 1..(ContextBound + 1) |-> "e"]

\* the caller contexts context assembly may be given
AssembleContexts == { << >>, Enrolled, LongContext }

InitAssemble ==
    /\ clock = 0
    /\ collection = None
    /\ index = {}
    /\ ncalls = 0
    /\ pc = [s \in Sessions |-> "idle"]
    /\ loc = [s \in Sessions |-> InitLoc]
    /\ qin = << >>
    /\ qparts = None
    /\ qkind = "unset"
    /\ ingested = {}
    /\ \E c \in AssembleContexts, h \in AssembleHits, r \in AssembleCourses :
           asm = [NoAssembly EXCEPT !.context_part = c, !.hits = h, !.courses = r]
    /\ sess = [s \in Sessions |-> NoPipeline]
    /\ NoAppState

\* lines 174-185 applied to asm; the clock reads now when the step ends
Assemble(now) ==
    /\ asm.full_context.null
    /\ ~asm.raised
    /\ clock' = now
    /\ IF \E k \in 1..Len(asm.courses) : CourseRaises(asm.courses[k])
       THEN asm' = [asm EXCEPT !.raised = TRUE]
       ELSE asm' = [asm EXCEPT !.full_context =
                       Some(FullContext(asm.context_part, asm.hits, asm.courses))]
    /\ UNCHANGED <<collection, index, ncalls, pc, loc, queryVars,
                   ingested, sess, appVars>>

\* lines 174-185 applied to the same asm by a later call
AssembleAgain ==
    /\ ~asm.full_context.null
    /\ asm.again.null
    /\ ncalls < MaxCalls
    /\ ncalls' = ncalls + 1
    /\ asm' = [asm EXCEPT !.again =
           Some(FullContext(asm.context_part, asm.hits, asm.courses))]
    /\ UNCHANGED <<clock, collection, index, pc, loc, queryVars, ingested,
                   sess, appVars>>

NextAssemble ==
    \/ \E now \in Readings : Assemble(now)
    \/ AssembleAgain

SpecAssemble == InitAssemble /\ [][NextAssemble]_vars

\* ------------------------------------------------ the chat page sessions
\* a slip: the pipeline is put into the session only after its agents are
\* set up, so a failed setup leaves no pipeline behind
SetupFailedNoPipeline ==
    [rag_pipeline |-> FALSE, crew |-> FALSE, page |-> "error",
     setup_failed |-> TRUE]

\* st.session_state.rag_pipeline was assigned at line 448 when setup_agents
\* raised at line 449: the pipeline stays in the session without a crew, the
\* page shows the error and returns
SetupFailed ==
    [rag_pipeline |-> TRUE, crew |-> FALSE, page |-> "error",
     setup_failed |-> TRUE]

\* one run of the chat page without a question typed in: the pipeline is
\* initialised when the session has none, then the chat interface is shown
ShowChatAssistant(s, init_raises, setup_raises) ==
    /\ pc[s] = "idle"
    /\ sess' = [sess EXCEPT ![s] =
           IF sess[s].rag_pipeline
           THEN [@ EXCEPT !.page = "chat"]
           ELSE IF init_raises
                THEN [@ EXCEPT !.page = "error"]
                ELSE IF setup_raises
                     THEN SetupFailed
                     ELSE [rag_pipeline |-> TRUE, crew |-> TRUE,
                           page |-> "chat", setup_failed |-> FALSE]]
    /\ UNCHANGED <<clock, collection, index, ncalls, pc, loc, queryVars,
                   ingested, asm, appVars>>

\* a question is typed into the chat interface the last run has shown: the
\* page runs again and calls basic_rag_chain on the session's pipeline
Ask(s, query, user_id) ==
    /\ sess[s].page = "chat"
    /\ AnswerQuery(s, query, user_id)

\* One browser session on the chat page over a stored index; the pipeline's
\* construction, the agent setup and every collaborator may fail.
NextApp ==
    \/ \E i, r \in BOOLEAN : ShowChatAssistant("s1", i, r)
    \/ \E q \in Queries, u \in Users : Ask("s1", q, u)
    \/ \E r \in BOOLEAN : AqEmbed("s1", r)
    \/ \E r \in BOOLEAN : AqSearch("s1", r)
    \/ \E resp \in CatalogResponses : AqCourses("s1", resp)
    \/ AqContext("s1")
    \/ \E resp \in ModelResponses : AqInvoke("s1", resp)
    \/ Return("s1")

SpecApp == InitAnswer /\ [][NextApp]_vars

\* ------------------------------------------- uploads into any collection
\* configurations another program may have created "user_documents" with
OtherConfigs ==
    { [size |-> 384, distance |-> "Euclid"],
      [size |-> 768, distance |-> "Cosine"],
      [size |-> 768, distance |-> "Dot"] }

InitSchema ==
    /\ clock = 0
    /\ \/ collection = None
       \/ collection = Some(CollectionConfig)
       \/ \E c \in OtherConfigs : collection = Some(c)
    /\ index = {}
    /\ ncalls = 0
    /\ pc = [s \in Sessions |-> "idle"]
    /\ loc = [s \in Sessions |-> InitLoc]
    /\ qin = << >>
    /\ qparts = None
    /\ qkind = "unset"
    /\ ingested = {}
    /\ asm = NoAssembly
    /\ sess = [s \in Sessions |-> NoPipeline]
    /\ NoAppState

\* One session uploading into a collection that is missing, or exists with
\* the pipeline's configuration, or exists with another one.
NextSchema ==
    \/ \E d \in Batches, u \in Users : AddDocuments("s1", d, u)
    \/ \E r \in BOOLEAN : AdCollectionExists("s1", r)
    \/ \E r \in BOOLEAN : AdCreateCollection("s1", r)
    \/ \E r \in BOOLEAN : AdEmbed("s1", r)
    \/ \E r \in BOOLEAN, now \in Readings : AdPoint("s1", r, now)
    \/ \E r \in BOOLEAN : AdUpsert("s1", r)
    \/ Return("s1")

SpecSchema == InitSchema /\ [][NextSchema]_vars

\* ------------------------------------------------ the catalog query alone
Web == <<"w","e","b">>
PY == <<"P","Y">>
Learn == <<"L","e","a","r","n"," ","w","e","b"," ","p","y","t","h","o","n">>

\* a course that carries "web" and "python" in all three searched columns
CourseWeb ==
    [title |-> <<"W","e","b"," ","P","y","t","h","o","n">>,
     subject |-> <<"P","y","t","h","o","n"," ","W","e","b">>,
     level |-> Beginner, description |-> Some(Learn), price |-> Some(5),
     subscribers |-> Some(3)]

CatalogCourses == {CourseFull, CourseOther, CourseWeb}

\* the rows of the courses table, in the order the database returns them
CatalogTables ==
    UNION {Arrangements(CatalogCourses, n) : n \in 0..Cardinality(CatalogCourses)}

\* the query argument of fetch_courses: None, "" or a text
CatalogQueries ==
    {None, Some(<< >>), Some(Web), Some(PY), Some(lower(Python)),
     Some(lower(Excel)), Some(lower(Intro)), Some(<<"z">>)}

\* column ILIKE '%q%': NULL columns match nothing
ILike(column, q) ==
    /\ ~column.null
    /\ Contains(lower(column.val), lower(q))

\* .ilike("title", ...).or_("subject.ilike...").or_("description.ilike..."):
\* the request carries title=ilike.., or=(subject.ilike..) and
\* or=(description.ilike..); the parameters of one request are conjoined
CourseFilter(course, q) ==
    /\ ILike(Some(course.title), q)
    /\ ILike(Some(course.subject), q)
    /\ ILike(course.description, q)

\* the rows that pass the filter, in table order
RECURSIVE SelectRows(_, _, _)
SelectRows(rows, q, k) ==
    IF k > Len(rows) THEN << >>
    ELSE (IF CourseFilter(rows[k], q) THEN << rows[k] >> ELSE << >>)
             \o SelectRows(rows, q, k + 1)

\* select("*") [filter if query] .limit(limit).execute(): response.data
CatalogData(table, query, limit) ==
    LET rows == IF ~query.null /\ query.val # << >>
                THEN SelectRows(table, lower(query.val), 1)
                ELSE table
    IN  SubSeq(rows, 1, Min(limit, Len(rows)))

InitCatalog ==
    /\ PipelineAtRest
    /\ \E q \in CatalogQueries, t \in CatalogTables, n \in {1, CourseLimit} :
           cat = [query |-> q, limit |-> n, table |-> t, result |-> None]
    /\ db = NoTables
    /\ req = NoRequests
    /\ http = NoExchange
    /\ tmp = NoUpload

\* fetch_courses(query, limit) answered by the table
CatalogFetch ==
    /\ cat.result.null
    /\ cat.limit > 0
    /\ cat' = [cat EXCEPT !.result =
           Some(FetchCourses([raises |-> FALSE,
                              data |-> Some(CatalogData(cat.table, cat.query, cat.limit))]))]
    /\ UNCHANGED <<pipelineVars, db, req, http, tmp>>

NextCatalog == CatalogFetch

SpecCatalog == InitCatalog /\ [][NextCatalog]_vars

\* ------------------------------------------------ two calls side by side
\* queries that share their question and differ in the enrollment context,
\* with the trigger word in the question or in the context only
PairQueries ==
    { <<"h","i">>,
      Child \o SEP \o <<"h","i">>,
      Child,
      <<"a">> \o SEP \o Child }

PairIndex == Upsert(Upsert({}, UploadOf(U1, 2, 0)), UploadOf(U2, 1, 0))

InitPair ==
    /\ clock = MaxClock
    /\ collection = Some(CollectionConfig)
    /\ index = PairIndex
    /\ ncalls = 0
    /\ pc = [s \in Sessions |-> "idle"]
    /\ loc = [s \in Sessions |-> InitLoc]
    /\ qin = << >>
    /\ qparts = None
    /\ qkind = "unset"
    /\ ingested = Chunks(index)
    /\ asm = NoAssembly
    /\ sess = [s \in Sessions |-> NoPipeline]
    /\ NoAppState

\* Two sessions ask at the same time over the same index; every collaborator
\* answers, the catalog with or without a course.
NextPair ==
    \/ \E s \in Sessions, q \in PairQueries, u \in Users \cup {Unknown} :
           AnswerQuery(s, q, u)
    \/ \E s \in Sessions : AqEmbed(s, FALSE)
    \/ \E s \in Sessions : AqSearch(s, FALSE)
    \/ \E s \in Sessions :
           \E data \in {<< >>, << CourseFull >>} :
               AqCourses(s, [raises |-> FALSE, data |-> Some(data)])
    \/ \E s \in Sessions : AqContext(s)
    \/ \E s \in Sessions : AqInvoke(s, [raises |-> FALSE, text |-> Answer])
    \/ \E s \in Sessions : Return(s)

SpecPair == InitPair /\ [][NextPair]_vars

\* ------------------------------------------------ enrollment (app.py)
\* the pipeline's variables other than the call counter
restVars ==
    <<clock, collection, index, pc, loc, qin, qparts, qkind, ingested, asm,
      sess>>

CourseIds == {1, 2}

\* a browser session that is not enrolling
NotEnrolling ==
    [at |-> "idle", user_id |-> None, course_id |-> None, outcome |-> "none"]

\* a row of user_courses
Enrollment(user_id, course_id) ==
    [user_id |-> user_id, course_id |-> course_id, progress |-> 0]

\* the rows of user_courses with user_id and course_id
EnrollmentRows(user_id, course_id) ==
    {k \in 1..Len(db.user_courses) :
        /\ db.user_courses[k].user_id = user_id
        /\ db.user_courses[k].course_id = course_id}

\* the schema of user_courses is not part of the repository: the table may
\* or may not refuse a second row for a pair
InitEnroll ==
    /\ PipelineAtRest
    /\ cat = NoCatalog
    /\ \E u \in BOOLEAN : db = [NoTables EXCEPT !.unique_enrollment = u]
    /\ req = [s \in Sessions |-> NotEnrolling]
    /\ http = NoExchange
    /\ tmp = NoUpload

EnrollEnd(s, outcome) ==
    req' = [req EXCEPT ![s].at = "done", ![s].outcome = outcome]

\* handle_enroll_course(course_id) up to the existing-row query: user is the
\* signed-in user of the session, if any; course is the id when int()
\* accepts it
HandleEnrollCourse(s, user, course) ==
    /\ req[s].at = "idle"
    /\ ncalls < MaxCalls
    /\ ncalls' = ncalls + 1
    /\ req' = [req EXCEPT ![s] =
           IF user.null
           THEN [NotEnrolling EXCEPT !.at = "done", !.outcome = "sign_in"]
           ELSE IF course.null
                THEN [NotEnrolling EXCEPT !.at = "done", !.user_id = user,
                                          !.outcome = "invalid_id"]
                ELSE [NotEnrolling EXCEPT !.at = "existing", !.user_id = user,
                                          !.course_id = course]]
    /\ UNCHANGED <<restVars, cat, db, http, tmp>>

\* existing = select ... eq(user_id).eq(course_id).execute(); if existing.data
EnrollExisting(s, raises) ==
    /\ req[s].at = "existing"
    /\ IF raises
       THEN EnrollEnd(s, "error")
       ELSE IF EnrollmentRows(req[s].user_id.val, req[s].course_id.val) # {}
            THEN EnrollEnd(s, "already")
            ELSE req' = [req EXCEPT ![s].at = "insert"]
    /\ UNCHANGED <<pipelineVars, cat, db, http, tmp>>

\* response = insert({...}).execute(); if response.data
EnrollInsert(s, raises, returned) ==
    /\ req[s].at = "insert"
    /\ LET user_id == req[s].user_id.val
           course_id == req[s].course_id.val
       IN  IF raises \/ (db.unique_enrollment
                            /\ EnrollmentRows(user_id, course_id) # {})
           THEN /\ EnrollEnd(s, "error")
                /\ UNCHANGED db
           ELSE /\ db' = [db EXCEPT !.user_courses =
                              Append(@, Enrollment(user_id, course_id))]
                /\ EnrollEnd(s, IF returned THEN "enrolled" ELSE "failed")
    /\ UNCHANGED <<pipelineVars, cat, http, tmp>>

\* the page has shown the message; the session can enroll again
EnrollReturn(s) ==
    /\ req[s].at = "done"
    /\ req' = [req EXCEPT ![s] = NotEnrolling]
    /\ UNCHANGED <<pipelineVars, cat, db, http, tmp>>

\* Two browser sessions, of one user or of two, enrolling at the same time.
NextEnroll ==
    \/ \E s \in Sessions, u \in {None} \cup {Some(x) : x \in Users},
          c \in {None} \cup {Some(n) : n \in CourseIds} :
           HandleEnrollCourse(s, u, c)
    \/ \E s \in Sessions, r \in BOOLEAN : EnrollExisting(s, r)
    \/ \E s \in Sessions, r, d \in BOOLEAN : EnrollInsert(s, r, d)
    \/ \E s \in Sessions : EnrollReturn(s)

SpecEnroll == InitEnroll /\ [][NextEnroll]_vars

\* ------------------------------------- REST API (fastapi.py, auth_api.py)
ApiIds == {"id1", "id2"}
Emails == {"e1", "e2"}
Roles == {"user", "admin"}
Titles == {"t1", "t2"}
Students == {"id1"}
ApiCourses == {1}

\* the id Supabase Auth gives the account of an email
IdOf(email) == IF email = "e1" THEN "id1" ELSE "id2"

\* raise HTTPException(status_code, detail)
HTTPException(status_code, detail) ==
    [status_code |-> status_code, detail |-> detail]

\* an exception of a collaborator (the database client, Supabase Auth)
ClientError == [status_code |-> 0, detail |-> "client error"]

\* str(e)
Str(e) == <<"str", e.status_code, e.detail>>

\* the response of a handler that returned
Ok == HTTPException(200, "ok")

\* an exception nothing in the handler catches
Unhandled == HTTPException(500, "Internal Server Error")

\* a slip: a lookup that raises lets the caller through
CheckAdminOpenOnError(user_id, raises) ==
    \/ raises
    \/ \E row \in db.users : row.id = user_id /\ row.role = "admin"

\* check_admin(user_id): False when the lookup raises, when there is no row,
\* when the role of the row is not "admin"
CheckAdmin(user_id, raises) ==
    /\ ~raises
    /\ \E row \in db.users : row.id = user_id /\ row.role = "admin"

\* the exchange a handler leaves behind: what was asked and what the client
\* gets; raised is the HTTPException raised inside the handler's try block,
\* if any
Exchange(endpoint, token, lookup_raises, raised, e) ==
    http' = [endpoint |-> endpoint, token |-> token,
             lookup_raises |-> lookup_raises,
             raised |-> raised, status_code |-> e.status_code,
             detail |-> e.detail]

\* get_current_user raised: 401 before the handler body runs
Unauthorized(endpoint) ==
    Exchange(endpoint, None, FALSE, None,
             HTTPException(401, "Invalid token"))

\* if not check_admin(current_user_id): raise HTTPException(403)
Forbidden(endpoint, token, lookup_raises) ==
    Exchange(endpoint, token, lookup_raises, None,
             HTTPException(403, "Only admins"))

\* except Exception as e: raise HTTPException(status_code=400, detail=str(e))
Caught(e) == HTTPException(400, Str(e))

\* the database of the API: one account in Supabase Auth, with or without
\* a users row, as user or as admin
InitApi ==
    /\ PipelineAtRest
    /\ cat = NoCatalog
    /\ \E rows \in {{}} \cup {{[id |-> "id1", email |-> "e1", role |-> r]} :
                                r \in Roles} :
           db = [NoTables EXCEPT !.users = rows,
                                 !.auth = {[id |-> "id1", email |-> "e1"]}]
    /\ req = NoRequests
    /\ http = NoExchange
    /\ tmp = NoUpload

apiFrame == <<pipelineVars, cat, req, tmp>>

\* POST /users/ : no authentication; the row stored is user.dict() with the
\* id of the new account
AddUser(email, role, fail) ==
    LET Reply(raised, e) == Exchange("add_user", None, FALSE, raised, e)
        Kept(text) == Reply(Some(HTTPException(400, text)),
                             HTTPException(400, text))
    IN  /\ IF fail = "list_users"
           THEN /\ Reply(None, HTTPException(400, <<"Error", Str(ClientError)>>))
                /\ UNCHANGED db
           ELSE IF \E u \in db.auth : u.email = email
           THEN /\ Kept("already registered")
                /\ UNCHANGED db
           ELSE IF fail = "sign_up"
           THEN /\ Reply(None, HTTPException(400, <<"Error", Str(ClientError)>>))
                /\ UNCHANGED db
           ELSE IF fail = "no_user"
           THEN /\ Kept("Failed to sign up")
                /\ UNCHANGED db
           ELSE LET id == IdOf(email)
                    auth == db.auth \cup {[id |-> id, email |-> email]}
                    row == [id |-> id, email |-> email, role |-> role]
                   IN  IF fail = "insert"
                       THEN /\ db' = [db EXCEPT !.auth = auth]
                            /\ Reply(None, HTTPException(400,
                                   <<"Error", Str(ClientError)>>))
                       ELSE IF fail = "no_data"
                       THEN /\ db' = [db EXCEPT !.auth = auth]
                            /\ Kept("Failed to insert")
                       ELSE /\ db' = [db EXCEPT !.auth = auth,
                                         !.users = {r \in @ : r.id # id}
                                                     \cup {row}]
                            /\ Reply(None, Ok)
        /\ UNCHANGED apiFrame

\* DELETE /users/{user_id}
RemoveUser(token, lookup_raises, user_id, fail) ==
    LET Reply(raised, e) ==
            Exchange("remove_user", token, lookup_raises, raised, e)
    IN  /\ IF token.null
           THEN /\ Unauthorized("remove_user")
                /\ UNCHANGED db
           ELSE IF ~CheckAdmin(token.val, lookup_raises)
           THEN /\ Forbidden("remove_user", token, lookup_raises)
                /\ UNCHANGED db
           ELSE IF fail = "delete"
           THEN /\ Reply(None, Caught(ClientError))
                /\ UNCHANGED db
           ELSE IF \A row \in db.users : row.id # user_id
           THEN /\ Reply(Some(HTTPException(404, "User not found")),
                          Caught(HTTPException(404, "User not found")))
                /\ UNCHANGED db
           ELSE IF fail = "delete_user"
           THEN /\ db' = [db EXCEPT !.users = {r \in @ : r.id # user_id}]
                /\ Reply(None, Caught(ClientError))
           ELSE /\ db' = [db EXCEPT !.users = {r \in @ : r.id # user_id},
                                    !.auth = {u \in @ : u.id # user_id}]
                /\ Reply(None, Ok)
        /\ UNCHANGED apiFrame

\* GET /users/
GetAllUsers(token, lookup_raises, raises) ==
    /\ IF token.null
       THEN Unauthorized("get_all_users")
       ELSE IF ~CheckAdmin(token.val, lookup_raises)
       THEN Forbidden("get_all_users", token, lookup_raises)
       ELSE Exchange("get_all_users", token, lookup_raises, None,
                     IF raises THEN Unhandled ELSE Ok)
    /\ UNCHANGED <<db, apiFrame>>

\* POST /courses/ : the table gives the new course its course_id
AddCourse(token, lookup_raises, title, fail) ==
    LET Reply(raised, e) ==
            Exchange("add_course", token, lookup_raises, raised, e)
    IN  /\ IF token.null
           THEN /\ Unauthorized("add_course")
                /\ UNCHANGED db
           ELSE IF ~CheckAdmin(token.val, lookup_raises)
           THEN /\ Forbidden("add_course", token, lookup_raises)
                /\ UNCHANGED db
           ELSE IF fail = "insert"
           THEN /\ Reply(None, Caught(ClientError))
                /\ UNCHANGED db
           ELSE \E id \in ApiCourses :
                /\ \A c \in db.courses : c.course_id # id
                /\ db' = [db EXCEPT !.courses =
                             @ \cup {[course_id |-> id, title |-> title]}]
                /\ IF fail = "no_data"
                   THEN Reply(Some(HTTPException(400, "Failed to add course")),
                               Caught(HTTPException(400, "Failed to add course")))
                   ELSE Reply(None, Ok)
        /\ UNCHANGED apiFrame

\* PUT /courses/{course_id} : no try block
RenameCourse(token, lookup_raises, course_id, title, raises) ==
    LET Reply(e) ==
            Exchange("rename_course", token, lookup_raises, None, e)
    IN  /\ IF token.null
           THEN /\ Unauthorized("rename_course")
                /\ UNCHANGED db
           ELSE IF ~CheckAdmin(token.val, lookup_raises)
           THEN /\ Forbidden("rename_course", token, lookup_raises)
                /\ UNCHANGED db
           ELSE IF raises
           THEN /\ Reply(Unhandled)
                /\ UNCHANGED db
           ELSE IF \A c \in db.courses : c.course_id # course_id
           THEN /\ Reply(HTTPException(404, "Course not found"))
                /\ UNCHANGED db
           ELSE /\ db' = [db EXCEPT !.courses =
                             {IF c.course_id = course_id
                              THEN [c EXCEPT !.title = title] ELSE c : c \in @}]
                /\ Reply(Ok)
        /\ UNCHANGED apiFrame

\* DELETE /courses/{course_id} : no try block
DeleteCourse(token, lookup_raises, course_id, raises) ==
    LET Reply(e) ==
            Exchange("delete_course", token, lookup_raises, None, e)
    IN  /\ IF token.null
           THEN /\ Unauthorized("delete_course")
                /\ UNCHANGED db
           ELSE IF ~CheckAdmin(token.val, lookup_raises)
           THEN /\ Forbidden("delete_course", token, lookup_raises)
                /\ UNCHANGED db
           ELSE IF raises
           THEN /\ Reply(Unhandled)
                /\ UNCHANGED db
           ELSE IF \A c \in db.courses : c.course_id # course_id
           THEN /\ Reply(HTTPException(404, "Course not found"))
                /\ UNCHANGED db
           ELSE /\ db' = [db EXCEPT !.courses =
                             {c \in @ : c.course_id # course_id}]
                /\ Reply(Ok)
        /\ UNCHANGED apiFrame

\* POST /user-courses/ : inserts without looking for an existing row
AddStudentToCourse(token, lookup_raises, user_id, course_id, fail) ==
    LET Reply(raised, e) ==
            Exchange("add_student_to_course", token, lookup_raises, raised, e)
    IN  /\ Len(db.user_courses) < MaxCalls
        /\ IF token.null
           THEN /\ Unauthorized("add_student_to_course")
                /\ UNCHANGED db
           ELSE IF ~CheckAdmin(token.val, lookup_raises)
           THEN /\ Forbidden("add_student_to_course", token, lookup_raises)
                /\ UNCHANGED db
           ELSE IF fail = "insert"
           THEN /\ Reply(None, Caught(ClientError))
                /\ UNCHANGED db
           ELSE /\ db' = [db EXCEPT !.user_courses =
                             Append(@, [user_id |-> user_id,
                                        course_id |-> course_id])]
                /\ IF fail = "no_data"
                   THEN Reply(Some(HTTPException(400, "Failed to enroll")),
                               Caught(HTTPException(400, "Failed to enroll")))
                   ELSE Reply(None, Ok)
        /\ UNCHANGED apiFrame

\* POST /signup of auth_api.py: every exception of the try block, the
\* handler's own HTTPException included, is answered as 500
Signup(email, fail) ==
    LET Reply(raised, e) == Exchange("signup", None, FALSE, raised, e)
        Failed(e) == HTTPException(500, <<"Signup failed", Str(e)>>)
    IN  /\ IF fail = "select"
           THEN /\ Reply(None, Failed(ClientError))
                /\ UNCHANGED db
           ELSE IF email \in db.accounts
           THEN /\ Reply(Some(HTTPException(400, "Email already registered")),
                          Failed(HTTPException(400, "Email already registered")))
                /\ UNCHANGED db
           ELSE IF fail = "insert"
           THEN /\ Reply(None, Failed(ClientError))
                /\ UNCHANGED db
           ELSE /\ db' = [db EXCEPT !.accounts = @ \cup {email}]
                /\ Reply(None, Ok)
        /\ UNCHANGED apiFrame

Tokens == {None} \cup {Some(id) : id \in ApiIds}

NextApi ==
    \/ \E e \in Emails, r \in Roles,
          f \in {"none", "list_users", "sign_up", "no_user", "insert",
                 "no_data"} : AddUser(e, r, f)
    \/ \E t \in Tokens, lr \in BOOLEAN, id \in ApiIds,
          f \in {"none", "delete", "delete_user"} : RemoveUser(t, lr, id, f)
    \/ \E t \in Tokens, lr, r \in BOOLEAN : GetAllUsers(t, lr, r)
    \/ \E t \in Tokens, lr \in BOOLEAN, title \in Titles,
          f \in {"none", "insert", "no_data"} : AddCourse(t, lr, title, f)
    \/ \E t \in Tokens, lr, r \in BOOLEAN, c \in ApiCourses, title \in Titles :
           RenameCourse(t, lr, c, title, r)
    \/ \E t \in Tokens, lr, r \in BOOLEAN, c \in ApiCourses :
           DeleteCourse(t, lr, c, r)
    \/ \E t \in Tokens, lr \in BOOLEAN, u \in Students, c \in ApiCourses,
          f \in {"none", "insert", "no_data"} :
           AddStudentToCourse(t, lr, u, c, f)
    \/ \E e \in Emails, f \in {"none", "select", "insert"} : Signup(e, f)

SpecApi == InitApi /\ [][NextApi]_vars

\* ------------------------------------------ study-material upload (app.py)
Extensions == {".pdf", ".txt", ".docx"}

\* rag_pipeline.loaders
Loaders == {".pdf", ".txt"}

\* a session with no upload in hand: file is the temporary file on disk,
\* path says whether tmp_file_path is bound, unlinks counts the deletes that
\* succeeded, missing says a delete was attempted on a file that was gone,
\* escaped says an exception left the handler
NotUploading ==
    [at |-> "idle", extension |-> None, file |-> "none", path |-> FALSE,
     unlinks |-> 0, missing |-> FALSE, escaped |-> FALSE, message |-> "none"]

InitUpload ==
    /\ PipelineAtRest
    /\ cat = NoCatalog
    /\ db = NoTables
    /\ req = NoRequests
    /\ http = NoExchange
    /\ tmp = [s \in Sessions |-> NotUploading]

uploadFrame == <<pipelineVars, cat, db, req, http>>

\* if uploaded_file: ... the size test; return inside the try block goes
\* through the finally clause
UploadFile(s, extension, oversize) ==
    /\ tmp[s].at = "idle"
    /\ ncalls < MaxCalls
    /\ ncalls' = ncalls + 1
    /\ tmp' = [tmp EXCEPT ![s] =
           IF oversize
           THEN [NotUploading EXCEPT !.at = "finally",
                                     !.extension = Some(extension),
                                     !.message = "exceeds limit"]
           ELSE [NotUploading EXCEPT !.at = "temp",
                                     !.extension = Some(extension)]]
    /\ UNCHANGED <<restVars, cat, db, req, http>>

\* with tempfile.NamedTemporaryFile(delete=False, ...) as tmp_file: write;
\* tmp_file_path = tmp_file.name
UploadTemp(s, outcome) ==
    /\ tmp[s].at = "temp"
    /\ tmp' = [tmp EXCEPT ![s] =
           IF outcome = "create raises"
           THEN [@ EXCEPT !.at = "except"]
           ELSE IF outcome = "write raises"
           THEN [@ EXCEPT !.at = "except", !.file = "exists"]
           ELSE [@ EXCEPT !.at = "load", !.file = "exists", !.path = TRUE]]
    /\ UNCHANGED uploadFrame

\* loaders.get(file_extension); loader.load()
UploadLoad(s, raises) ==
    /\ tmp[s].at = "load"
    /\ tmp' = [tmp EXCEPT ![s] =
           IF tmp[s].extension.val \notin Loaders
           THEN [@ EXCEPT !.at = "unlink", !.message = "unsupported"]
           ELSE IF raises
           THEN [@ EXCEPT !.at = "except"]
           ELSE [@ EXCEPT !.at = "add"]]
    /\ UNCHANGED uploadFrame

\* success = rag_pipeline.add_documents(documents, user_id)
UploadAdd(s, success) ==
    /\ tmp[s].at = "add"
    /\ tmp' = [tmp EXCEPT ![s] =
           [@ EXCEPT !.at = "unlink",
                     !.message = IF success THEN "added" ELSE "not added"]]
    /\ UNCHANGED uploadFrame

\* os.unlink(tmp_file_path): deletes the file, or raises FileNotFoundError
\* when it is gone; goes to next when it returns and to failed when it raises
Unlink(u, next, failed) ==
    IF u.file = "exists"
    THEN [u EXCEPT !.file = "deleted", !.unlinks = @ + 1, !.at = next]
    ELSE [u EXCEPT !.missing = TRUE, !.at = failed]

\* os.unlink(tmp_file_path) as the last statement of the try block
UploadUnlink(s) ==
    /\ tmp[s].at = "unlink"
    /\ tmp' = [tmp EXCEPT ![s] = Unlink(@, "finally", "except")]
    /\ UNCHANGED uploadFrame

\* except Exception as e: logger.error; st.error
UploadExcept(s) ==
    /\ tmp[s].at = "except"
    /\ tmp' = [tmp EXCEPT ![s] = [@ EXCEPT !.at = "finally",
                                            !.message = "error"]]
    /\ UNCHANGED uploadFrame

\* finally: if 'tmp_file_path' in locals(): os.unlink(tmp_file_path); an
\* exception raised here has no handler
UploadFinally(s) ==
    /\ tmp[s].at = "finally"
    /\ tmp' = [tmp EXCEPT ![s] =
           IF ~tmp[s].path
           THEN [@ EXCEPT !.at = "done"]
           ELSE LET u == Unlink(@, "done", "escaped")
                IN  IF u.at = "escaped"
                    THEN [u EXCEPT !.at = "done", !.escaped = TRUE]
                    ELSE u]
    /\ UNCHANGED uploadFrame

\* the script has ended; the next upload starts afresh
UploadRerun(s) ==
    /\ tmp[s].at = "done"
    /\ tmp' = [tmp EXCEPT ![s] = NotUploading]
    /\ UNCHANGED uploadFrame

NextUpload ==
    \/ \E s \in Sessions, x \in Extensions, o \in BOOLEAN : UploadFile(s, x, o)
    \/ \E s \in Sessions, o \in {"ok", "create raises", "write raises"} :
           UploadTemp(s, o)
    \/ \E s \in Sessions, r \in BOOLEAN : UploadLoad(s, r)
    \/ \E s \in Sessions, ok \in BOOLEAN : UploadAdd(s, ok)
    \/ \E s \in Sessions : UploadUnlink(s)
    \/ \E s \in Sessions : UploadExcept(s)
    \/ \E s \in Sessions : UploadFinally(s)
    \/ \E s \in Sessions : UploadRerun(s)

SpecUpload == InitUpload /\ [][NextUpload]_vars

\* ------------------------------------------------------------ properties
IsQuery(s) == loc[s].op = "query"
IsAdd(s) == loc[s].op = "add"

AqPositions == {"aq_embed", "aq_search", "aq_courses", "aq_context", "aq_invoke", "aq_done"}
AdPositions == {"ad_exists", "ad_create", "ad_embed", "ad_points", "ad_upsert", "ad_done"}

\* the texts the model can answer with
ModelTexts == {r.text : r \in {x \in ModelResponses : ~x.raises}}

\* C1: basic_rag_chain never raises. Whatever stage raised (embedding the
\* question, the index search, the catalog search, context assembly, the model
\* call), the call stays on its path to the return statement, no exception
\* leaves it, and a call that has ended has returned a string.
C1_NeverRaises ==
    \A s \in Sessions :
        IsQuery(s) =>
            /\ pc[s] \in AqPositions
            /\ pc[s] = "aq_done" => ~loc[s].ret.null
            /\ pc[s] = "aq_done" /\ loc[s].raised \cap {"context", "invoke"} # {}
                  => StartsAt(loc[s].ret.val, ApologyHead, 1)

\* C1 witness: one call in which the embedding, the catalog search and the
\* model call all raised has returned.
C1_Witness ==
    \E s \in Sessions :
        /\ IsQuery(s)
        /\ pc[s] = "aq_done"
        /\ loc[s].raised = {"embed_query", "fetch_courses", "invoke"}
        /\ ~loc[s].ret.null

\* C2: user isolation. Every point an upload builds carries the uploader's
\* user_id in its payload, and every hit a query for user B works with is a
\* point whose payload user_id is B; the excerpts of the context are made of
\* exactly those hits.
C2_UserIsolation ==
    /\ \A s \in Sessions :
          IsAdd(s) =>
              \A k \in 1..Len(loc[s].points) :
                  loc[s].points[k].payload.user_id = loc[s].user_id
    /\ \A s \in Sessions :
          IsQuery(s) =>
              /\ \A k \in 1..Len(loc[s].user_doc_results) :
                    loc[s].user_doc_results[k].payload.user_id = loc[s].user_id
              /\ ~loc[s].full_context.null =>
                    loc[s].full_context.val =
                        FullContext(loc[s].context_part, loc[s].user_doc_results,
                                    loc[s].course_results)

\* C2 witness: a query for a user has ended with that user's own chunk in its
\* context while the index also holds another user's point.
C2_Witness ==
    \E s \in Sessions :
        /\ IsQuery(s)
        /\ pc[s] = "aq_done"
        /\ loc[s].user_doc_results # << >>
        /\ Contains(loc[s].full_context.val, Mitosis)
        /\ \E p \in index : p.payload.user_id # loc[s].user_id

\* C3: point ids are unique across batches: an upload that returns True adds
\* as many points to the index as its batch holds, overwriting none.
C3_UploadsNeverOverwrite ==
    [][\A s \in Sessions :
          (pc[s] = "ad_upsert" /\ pc'[s] = "ad_done" /\ ~loc'[s].ret.null
              /\ loc'[s].ret.val = TRUE)
          => Cardinality(index') = Cardinality(index) + Len(loc[s].points)]_vars

\* C4: within one add_documents call no two points of the batch carry the
\* same id, also when the clock ticks between two points.
C4_BatchIdsDistinct ==
    \A s \in Sessions :
        IsAdd(s) =>
            \A a, b \in 1..Len(loc[s].points) :
                a # b => loc[s].points[a].id # loc[s].points[b].id

\* C4 witness: a whole batch of two points is ready for upsert and the clock
\* ticked between the two.
C4_Witness ==
    \E s \in Sessions :
        /\ pc[s] = "ad_upsert"
        /\ Len(loc[s].points) = 2
        /\ loc[s].points[1].payload.uploaded_at # loc[s].points[2].payload.uploaded_at

\* C5: add_documents reports failure as a value. No exception leaves the
\* call; a call in which any step raised has returned False; a call returns
\* True only after an upsert of the whole batch (one point per document), and
\* then every id of the batch is in the index.
C5_AddReportsFailure ==
    \A s \in Sessions :
        IsAdd(s) =>
            /\ pc[s] \in AdPositions
            /\ pc[s] = "ad_done" =>
                  /\ ~loc[s].ret.null
                  /\ loc[s].ret.val \in BOOLEAN
                  /\ loc[s].raised # {} => loc[s].ret.val = FALSE
                  /\ loc[s].ret.val = TRUE =>
                        /\ loc[s].raised = {}
                        /\ loc[s].ran[Len(loc[s].ran)] = "upsert"
                        /\ Len(loc[s].points) = Len(loc[s].documents)
                        /\ \A k \in 1..Len(loc[s].points) :
                              \E p \in index : p.id = loc[s].points[k].id

\* C5 witness: one upload has returned False after point construction
\* raised while another has returned True.
C5_Witness ==
    \E s, t \in Sessions :
        /\ pc[s] = "ad_done" /\ "points" \in loc[s].raised
        /\ loc[s].ret = Some(FALSE)
        /\ pc[t] = "ad_done" /\ loc[t].ret = Some(TRUE)

\* some position of text s starts word w once s is lower-cased
HasTrigger(s, w) ==
    \E k \in 1..Len(s) :
        /\ k + Len(w) - 1 <= Len(s)
        /\ \A j \in 1..Len(w) : LowerChar(s[k + j - 1]) = w[j]

\* C6: the simplified template is chosen if and only if the lower-cased
\* question contains "child" or "six-year-old"; otherwise the standard one.
C6_PromptSelection ==
    qkind # "unset" =>
        /\ qkind \in {"SimplifiedForChild", "Standard"}
        /\ qkind = "SimplifiedForChild"
              <=> (HasTrigger(qparts.val.question, Child)
                      \/ HasTrigger(qparts.val.question, SixYearOld))

\* C6 witness: the simplified template was chosen for a question that holds a
\* trigger in upper or mixed case only.
C6_Witness ==
    /\ qkind = "SimplifiedForChild"
    /\ ~Contains(qparts.val.question, Child)
    /\ ~Contains(qparts.val.question, SixYearOld)

\* the positions of qin where the separator occurs
SepPositions == {k \in 1..Len(qin) : StartsAt(qin, SEP, k)}

\* the last of them
LastSep == CHOOSE k \in SepPositions : \A j \in SepPositions : j <= k

\* C7: the bare question is the text after the last occurrence of the
\* separator; without a separator it is the whole query and the caller
\* context is empty.
C7_QuestionAfterLastSeparator ==
    ~qparts.null =>
        IF SepPositions # {}
        THEN qparts.val.question = SubSeq(qin, LastSep + Len(SEP), Len(qin))
        ELSE qparts.val.question = qin /\ qparts.val.context_part = << >>

\* C7 witness: a query holding the separator twice has been split.
C7_Witness ==
    /\ ~qparts.null
    /\ Cardinality(SepPositions) = 2
    /\ qparts.val.question # << >>

\* C8: context round trip: for a query holding the separator, the caller
\* context is everything before the last occurrence, so that context +
\* separator + question is the query again.
C8_ContextRoundTrip ==
    (~qparts.null /\ SepPositions # {}) =>
        /\ qparts.val.context_part = SubSeq(qin, 1, LastSep - 1)
        /\ qparts.val.context_part \o SEP \o qparts.val.question = qin

\* C9: when embedding the question or the index search raised, the call goes
\* on: the hits are empty, the user-document block of the context is exactly
\* the placeholder, the catalog search, the assembly and the model call run,
\* and, unless one of those raised in its turn, the model's text is returned
\* and not the apology.
C9_VectorStoreDegrades ==
    \A s \in Sessions :
        (IsQuery(s) /\ loc[s].raised \cap {"embed_query", "search"} # {}) =>
            /\ pc[s] \in {"aq_courses", "aq_context", "aq_invoke", "aq_done"}
            /\ loc[s].user_doc_results = << >>
            /\ ~loc[s].full_context.null =>
                  loc[s].full_context.val =
                      loc[s].context_part \o DocsLabel \o NoDocs \o CoursesLabel
                          \o CourseContext(loc[s].course_results)
            /\ pc[s] = "aq_done" =>
                  /\ \E k \in 1..Len(loc[s].ran) : loc[s].ran[k] = "fetch_courses"
                  /\ \E k \in 1..Len(loc[s].ran) : loc[s].ran[k] = "context"
                  /\ ~loc[s].ret.null
            /\ (pc[s] = "aq_done" /\ loc[s].raised \cap {"context", "invoke"} = {}) =>
                  /\ loc[s].ran[Len(loc[s].ran)] = "invoke"
                  /\ loc[s].ret.val \in ModelTexts
                  /\ ~StartsAt(loc[s].ret.val, ApologyHead, 1)

\* C9 witness: a call whose index search raised has returned the model's
\* answer.
C9_Witness ==
    \E s \in Sessions :
        /\ IsQuery(s)
        /\ pc[s] = "aq_done"
        /\ "search" \in loc[s].raised
        /\ loc[s].ret = Some(Answer)

\* a text ends with a given suffix
EndsWith(s, suffix) ==
    /\ Len(suffix) <= Len(s)
    /\ SubSeq(s, Len(s) - Len(suffix) + 1, Len(s)) = suffix

\* C10: catalog search never raises: after fetch_courses met an error, or
\* found no course, the course list is empty, the course block of the context
\* is the placeholder, context assembly does not raise and the call goes on
\* to the model call.
C10_CatalogDegrades ==
    \A s \in Sessions :
        IsQuery(s) =>
            /\ ("fetch_courses" \in loc[s].raised) =>
                  /\ loc[s].course_results = << >>
                  /\ pc[s] \in {"aq_context", "aq_invoke", "aq_done"}
            /\ (pc[s] \in {"aq_invoke", "aq_done"} /\ loc[s].course_results = << >>) =>
                  /\ "context" \notin loc[s].raised
                  /\ ~loc[s].full_context.null
                  /\ EndsWith(loc[s].full_context.val, CoursesLabel \o NoCourses)
            /\ (pc[s] = "aq_done" /\ loc[s].course_results = << >>) =>
                  loc[s].ran[Len(loc[s].ran)] = "invoke"

\* C10 witness: a call whose catalog search raised has returned the model's
\* answer, and it had documents of the user in its context.
C10_Witness ==
    \E s \in Sessions :
        /\ IsQuery(s)
        /\ pc[s] = "aq_done"
        /\ "fetch_courses" \in loc[s].raised
        /\ loc[s].user_doc_results # << >>
        /\ loc[s].ret = Some(Answer)

\* the messages the model call can raise with
ModelErrors == {r.text : r \in {x \in ModelResponses : x.raises}}

\* C11: generation failure. When the model invocation raised an error with
\* message m, the call has ended without propagating it and has returned
\* exactly "I couldn't process that request. Please try again. (Error: m)".
C11_GenerationFailureApology ==
    \A s \in Sessions :
        (IsQuery(s) /\ "invoke" \in loc[s].raised) =>
            /\ pc[s] = "aq_done"
            /\ ~loc[s].e.null
            /\ loc[s].e.val \in ModelErrors
            /\ loc[s].response.null
            /\ loc[s].ret = Some(ApologyHead \o loc[s].e.val \o ApologyTail)
            /\ Contains(loc[s].ret.val, loc[s].e.val)

\* C11 witness: the model call raised "429 quota" after the context was
\* assembled, and the call returned the apology that quotes it.
C11_Witness ==
    \E s \in Sessions :
        /\ IsQuery(s)
        /\ pc[s] = "aq_done"
        /\ "invoke" \in loc[s].raised
        /\ ~loc[s].full_context.null
        /\ loc[s].e = Some(Quota)
        /\ loc[s].ret.val = ApologyHead \o Quota \o ApologyTail

\* C12: the string a call returns is never empty, on the failure paths and
\* on the success path whatever the model produced.
C12_ReturnNonEmpty ==
    \A s \in Sessions :
        (IsQuery(s) /\ pc[s] = "aq_done") =>
            /\ ~loc[s].ret.null
            /\ Len(loc[s].ret.val) > 0

\* the chunks user_id has ingested, and the points user_id has in the index
IngestedBy(user_id) == {c \in ingested : c.user_id = user_id}
StoredFor(user_id) == {p \in index : p.payload.user_id = user_id}

\* the first PreviewLen characters of a text
Preview(content) == SubSeq(content, 1, Min(PreviewLen, Len(content)))

\* C13: own documents are retrieved. Once add_documents has returned True
\* for a chunk of user u, a later call for u whose embedding and search
\* succeed while u owns at most 3 chunks gets that chunk among its search
\* results, and the context assembled from them carries the first 200
\* characters of the chunk in the user-document block.
C13_OwnDocumentsRetrieved ==
    [][\A s \in Sessions :
          /\ (/\ pc[s] = "aq_search"
              /\ pc'[s] = "aq_courses"
              /\ "search" \notin loc'[s].raised
              /\ Cardinality(IngestedBy(loc[s].user_id)) <= SearchLimit
              /\ Cardinality(StoredFor(loc[s].user_id)) <= SearchLimit) =>
                 \A c \in IngestedBy(loc[s].user_id) :
                     \E k \in 1..Len(loc'[s].user_doc_results) :
                         loc'[s].user_doc_results[k].payload.content = c.content
          /\ (pc[s] = "aq_context" /\ pc'[s] = "aq_invoke") =>
                 \A k \in 1..Len(loc[s].user_doc_results) :
                     Contains(loc'[s].full_context.val,
                              DocPrefix \o Preview(loc[s].user_doc_results[k].payload.content))
      ]_vars

\* the positions at which w occurs in s
Occurrences(s, w) == {k \in 1..Len(s) : StartsAt(s, w, k)}

\* the k-th smallest element of a set of numbers
Kth(S, k) == CHOOSE p \in S : Cardinality({q \in S : q < p}) = k - 1

\* where the course block of an assembled context starts
CoursesAt(ctx) == CHOOSE c \in Occurrences(ctx, CoursesLabel) : TRUE

\* where the excerpts start in an assembled context: the occurrences of
\* "User Document: " between the two labels
ExcerptsAt(ctx) ==
    {p \in Occurrences(ctx, DocPrefix) :
        Len(asm.context_part) + Len(DocsLabel) < p /\ p < CoursesAt(ctx)}

\* where the course summaries start: the occurrences of "Course: " after the
\* second label
SummariesAt(ctx) ==
    {p \in Occurrences(ctx, CourseTag) : p > CoursesAt(ctx)}

\* C14: context assembly order. The context is the caller's context, then
\* the block labelled "User Uploaded Documents:" holding one excerpt per
\* search result in the order of the results, then the block labelled
\* "Available Courses:" holding one summary per course in the order of the
\* catalog's answer: nothing reordered, duplicated or dropped.
C14_AssemblyOrder ==
    ~asm.full_context.null =>
        LET ctx == asm.full_context.val
            body == Len(asm.context_part) + Len(DocsLabel) + 1
        IN  /\ StartsAt(ctx, asm.context_part \o DocsLabel, 1)
            /\ Cardinality({c \in Occurrences(ctx, CoursesLabel) : c >= body}) = 1
            /\ Cardinality(ExcerptsAt(ctx)) = Len(asm.hits)
            /\ \A k \in 1..Len(asm.hits) :
                   StartsAt(ctx, Preview(asm.hits[k].payload.content),
                            Kth(ExcerptsAt(ctx), k) + Len(DocPrefix))
            /\ asm.hits # << >> => Kth(ExcerptsAt(ctx), 1) = body
            /\ asm.hits = << >> => StartsAt(ctx, NoDocs \o CoursesLabel, body)
            /\ Cardinality(SummariesAt(ctx)) = Len(asm.courses)
            /\ \A k \in 1..Len(asm.courses) :
                   StartsAt(ctx, asm.courses[k].title \o SubjectTag,
                            Kth(SummariesAt(ctx), k) + Len(CourseTag))
            /\ asm.courses # << >> =>
                   Kth(SummariesAt(ctx), 1) = CoursesAt(ctx) + Len(CoursesLabel)
            /\ asm.courses = << >> => EndsWith(ctx, CoursesLabel \o NoCourses)

\* C14 witness: a context was assembled from an enrollment context, two
\* different excerpts and two different courses.
C14_Witness ==
    /\ ~asm.full_context.null
    /\ asm.context_part = Enrolled
    /\ Len(asm.hits) = 2
    /\ asm.hits[1].payload.content # asm.hits[2].payload.content
    /\ asm.courses = << CourseOther, CourseFull >>

\* C15: excerpt truncation. Every excerpt of the assembled context is the
\* first 200 characters of its chunk (the whole chunk when it is shorter)
\* followed by "..." and by the end of the excerpt: a chunk longer than 200
\* characters is cut at 200 and marked.
C15_ExcerptTruncation ==
    ~asm.full_context.null =>
        LET ctx == asm.full_context.val
        IN  \A k \in 1..Len(asm.hits) :
                LET content == asm.hits[k].payload.content
                    cut == SubSeq(content, 1, Min(PreviewLen, Len(content)))
                IN  /\ Len(cut) <= PreviewLen
                    /\ StartsAt(ctx, cut \o Ellipsis \o <<"\n", "\n">>,
                                Kth(ExcerptsAt(ctx), k) + Len(DocPrefix))

\* C15 witness: a context was assembled with the excerpt of a chunk of more
\* than 200 characters.
C15_Witness ==
    /\ ~asm.full_context.null
    /\ \E k \in 1..Len(asm.hits) : Len(asm.hits[k].payload.content) > PreviewLen
    /\ Contains(asm.full_context.val, DocPrefix \o SubSeq(LongText, 1, PreviewLen) \o Ellipsis)

\* C16: bounded context. Whatever the lengths of the caller's context, of the
\* stored chunks and of the course descriptions, the assembled context is no
\* longer than a fixed bound.
C16_BoundedContext ==
    ~asm.full_context.null => Len(asm.full_context.val) <= ContextBound

\* the position of a stage in the log of session s, 0 when it has not run
StageAt(s, stage) ==
    IF \E k \in 1..Len(loc[s].ran) : loc[s].ran[k] = stage
    THEN CHOOSE k \in 1..Len(loc[s].ran) : loc[s].ran[k] = stage
    ELSE 0

\* stage a ended without raising before stage b began
CompletedBefore(s, a, b) ==
    /\ 0 < StageAt(s, a)
    /\ StageAt(s, a) < StageAt(s, b)
    /\ a \notin loc[s].raised

ReviewStages == {"classify", "review"}

\* C17: stage ordering inside one call. The question embedding has completed
\* when the vector search starts, the vector search (when the call makes one)
\* and the catalog search have ended when the context is assembled, the
\* context is assembled when the model is invoked, and no review step runs
\* before the model call has completed.
C17_StageOrdering ==
    \A s \in Sessions :
        IsQuery(s) =>
            /\ \A j, k \in 1..Len(loc[s].ran) :
                   loc[s].ran[j] = loc[s].ran[k] => j = k
            /\ StageAt(s, "search") > 0 => CompletedBefore(s, "embed_query", "search")
            /\ StageAt(s, "context") > 0 =>
                   /\ 0 < StageAt(s, "fetch_courses")
                   /\ StageAt(s, "fetch_courses") < StageAt(s, "context")
                   /\ StageAt(s, "embed_query") < StageAt(s, "context")
                   /\ StageAt(s, "search") < StageAt(s, "context")
                   /\ loc[s].user_id # Unknown =>
                          \/ StageAt(s, "search") > 0
                          \/ "embed_query" \in loc[s].raised
            /\ StageAt(s, "invoke") > 0 => CompletedBefore(s, "context", "invoke")
            /\ \A r \in ReviewStages :
                   StageAt(s, r) > 0 => CompletedBefore(s, "invoke", r)

\* C17 witness: a call went through every stage without a failure and has
\* returned the model's answer.
C17_Witness ==
    \E s \in Sessions :
        /\ IsQuery(s)
        /\ pc[s] = "aq_done"
        /\ loc[s].raised = {}
        /\ loc[s].ran = <<"split", "embed_query", "search", "fetch_courses",
                          "context", "invoke">>
        /\ loc[s].ret = Some(Answer)

\* C18: when the review stage has been enabled (setup_agents completed in the
\* session), every call whose model call succeeded has run intent
\* classification and then quality review, after generation, by the time it
\* has returned.
C18_ReviewStepsRun ==
    \A s \in Sessions :
        (/\ IsQuery(s)
         /\ sess[s].crew
         /\ pc[s] = "aq_done"
         /\ ~loc[s].response.null) =>
            /\ CompletedBefore(s, "invoke", "classify")
            /\ StageAt(s, "classify") < StageAt(s, "review")

\* a session whose agent setup failed
SetupHasFailed(s) == sess[s].setup_failed

C20_SchemaMismatchReported ==
    \A s \in Sessions :
        (/\ IsAdd(s)
         /\ pc[s] = "ad_done"
         /\ ~collection.null
         /\ collection.val # CollectionConfig) =>
            /\ loc[s].ret = Some(FALSE)
            /\ index = {}

\* C21: collection creation is idempotent under every interleaving. A call
\* is at create_collection only while the collection does not exist, so that
\* no creation is refused, and no call fails, because another call created
\* the collection first.
C21_CreateOnlyWhenMissing ==
    \A s \in Sessions : pc[s] = "ad_create" => collection.null

\* q occurs, whatever the case, in the title, the subject or the description
MatchesAnyColumn(course, q) ==
    \/ ILike(Some(course.title), q)
    \/ ILike(Some(course.subject), q)
    \/ ILike(course.description, q)

\* C22: catalog search filter. With a non-empty query q the courses returned
\* are courses that carry q in the title or the subject or the description,
\* and as many of them as the limit allows (a course matching in one column
\* only is returned); with an absent or empty query the first limit rows of
\* the table are returned.
C22_CatalogFilter ==
    ~cat.result.null =>
        LET rows == cat.result.val
        IN  IF ~cat.query.null /\ cat.query.val # << >>
            THEN LET eligible == {k \in 1..Len(cat.table) :
                                     MatchesAnyColumn(cat.table[k], cat.query.val)}
                 IN  /\ \A j \in 1..Len(rows) :
                            MatchesAnyColumn(rows[j], cat.query.val)
                     /\ Len(rows) = Min(cat.limit, Cardinality(eligible))
            ELSE rows = SubSeq(cat.table, 1, Min(cat.limit, Len(cat.table)))

\* session s has chosen its template
HasPrompt(s) == IsQuery(s) /\ loc[s].prompt # "unset"

\* C23: the template depends on the bare question only. Two calls with the
\* same question that have chosen their template have chosen the same one,
\* whatever their users, enrollment contexts, document hits and courses; the
\* choice is the one the question alone determines.
C23_PromptDependsOnQuestionOnly ==
    \A s, t \in Sessions :
        (HasPrompt(s) /\ HasPrompt(t)) =>
            /\ loc[s].question = loc[t].question => loc[s].prompt = loc[t].prompt
            /\ loc[s].prompt = "SimplifiedForChild" <=>
                   \/ HasTrigger(loc[s].question, SixYearOld)
                   \/ HasTrigger(loc[s].question, Child)

\* C23 witness: two calls with the question "hi" have both chosen the
\* standard template; they differ in user, context, hits and courses, and
\* the context of one of them contains "child".
C23_Witness ==
    \E s, t \in Sessions :
        /\ HasPrompt(s) /\ HasPrompt(t)
        /\ loc[s].question = <<"h","i">>
        /\ loc[t].question = <<"h","i">>
        /\ Contains(loc[s].context_part, Child)
        /\ loc[t].context_part = << >>
        /\ loc[s].user_id # loc[t].user_id
        /\ loc[s].user_doc_results # loc[t].user_doc_results
        /\ loc[s].course_results # loc[t].course_results
        /\ loc[s].prompt = "Standard"
        /\ loc[t].prompt = "Standard"

SepsIn(text) == {k \in 1..Len(text) : StartsAt(text, SEP, k)}

\* what follows the last separator of a text, the text itself without one
BareQuestion(text) ==
    IF SepsIn(text) = {} THEN text
    ELSE LET last == CHOOSE k \in SepsIn(text) : \A j \in SepsIn(text) : j <= k
         IN  SubSeq(text, last + Len(SEP), Len(text))

\* C25: retrieval uses the bare question only. The text embedded as the
\* query vector and the text passed to the catalog search are the question
\* recovered from the query (what follows its last separator), not the
\* combined string when the query contains the separator.
C25_RetrievalUsesQuestion ==
    \A s \in Sessions :
        IsQuery(s) =>
            LET query == loc[s].query
                bare == BareQuestion(query)
            IN  /\ pc[s] \in {"aq_search", "aq_courses", "aq_context", "aq_invoke", "aq_done"}
                       /\ loc[s].user_id # Unknown
                       => loc[s].embedded = Some(bare)
                /\ pc[s] \in {"aq_context", "aq_invoke", "aq_done"} =>
                       loc[s].catalog_query = Some(bare)
                /\ \A t \in {loc[s].embedded, loc[s].catalog_query} :
                       (~t.null /\ Contains(query, SEP)) => t.val # query

\* C25 witness: a call whose query has an enrollment context has embedded
\* and searched the catalog with the question alone.
C25_Witness ==
    \E s \in Sessions :
        /\ IsQuery(s)
        /\ pc[s] = "aq_done"
        /\ Contains(loc[s].query, SEP)
        /\ loc[s].embedded = Some(Child)
        /\ loc[s].catalog_query = Some(Child)
        /\ loc[s].ret = Some(Answer)

\* C26: enrollment uniqueness. Whatever handle_enroll_course calls have
\* run and however they interleaved, user_courses holds at most one row for
\* a user and a course.
C26_EnrollmentUnique ==
    \A u \in Users, c \in CourseIds :
        Cardinality(EnrollmentRows(u, c)) <= 1

\* the endpoints that test check_admin before they touch a table
Gated ==
    {"remove_user", "get_all_users", "add_course", "rename_course",
     "delete_course", "add_student_to_course"}

\* the users table has a row with this id and role "admin"
AdminRow(rows, id) == \E row \in rows : row.id = id /\ row.role = "admin"

\* C27: admin gating fails closed. A request to one of the six gated
\* endpoints by an authenticated caller for whom check_admin is False (the
\* caller's row is not an admin's, the caller has no row, or the role lookup
\* raises) is answered 403 and leaves users, courses and user_courses as
\* they were.
C27_AdminGateFailsClosed ==
    [][(/\ http'.endpoint \in Gated
        /\ ~http'.token.null
        /\ (http'.lookup_raises \/ ~AdminRow(db.users, http'.token.val)))
       => (http'.status_code = 403 /\ db' = db)]_vars

\* an admin whose role lookup raised has been refused
C27_Witness ==
    /\ http.endpoint \in Gated
    /\ ~http.token.null
    /\ http.lookup_raises
    /\ AdminRow(db.users, http.token.val)
    /\ http.status_code = 403

\* C28: no privilege escalation through the REST API. A users row with
\* role "admin" comes into existence only through a request made by an
\* authenticated caller who is an admin already.
C28_NoPrivilegeEscalation ==
    [][\A row \in db'.users \ db.users :
          row.role = "admin"
          => (~http'.token.null /\ AdminRow(db.users, http'.token.val))]_vars

\* C30: handler status codes are preserved. An HTTPException raised inside
\* a handler's try block reaches the client with the status code it was
\* raised with (404 of DELETE /users/{id} for an id without a row, 400 of
\* POST /signup for a registered email).
C30_StatusPreserved ==
    ~http.raised.null => http.status_code = http.raised.val.status_code

\* C29: upload temp-file lifecycle. When the upload handling has ended, on
\* whichever path, a temporary file that was created has been deleted
\* exactly once, no delete was attempted on a file already deleted, and no
\* exception has left the handler.
C29_TempFileLifecycle ==
    \A s \in Sessions :
        tmp[s].at = "done"
        => /\ (tmp[s].file # "none"
               => tmp[s].file = "deleted" /\ tmp[s].unlinks = 1)
           /\ ~tmp[s].missing
           /\ ~tmp[s].escaped

====
